---------------------------- MODULE Spec2Model ----------------------------
(***************************************************************************)
(* Model of src/server.py: the shipment progression engine.                *)
(*                                                                         *)
(*   generate_step_durations  the duration allocator (a pure function of   *)
(*                            its three random draws)                      *)
(*   generate_tracking_for    the shipment factory                         *)
(*   simulation_loop          the scheduler thread, one tick at a time     *)
(*   handle_incident          one resolver thread per declared incident    *)
(*   archive_shipment         the archive request                          *)
(*                                                                         *)
(* Python lists are 0-based, TLA+ sequences 1-based: the stage a document  *)
(* stores in current_step_index is kept 0-based, as in the code, and a     *)
(* list element l[i] of the code is the element l[i + 1] here.             *)
(***************************************************************************)
EXTENDS Integers, Sequences, FiniteSets, TLC

(***************************************************************************)
(* Program constants.                                                      *)
(***************************************************************************)
MinTotal == 55
MaxTotal == 60
MinPropPercent == 40
MaxPropPercent == 50
NumPartials == 6
NumStages == 7
TransitStage == 3
MinTracking == 10000000
MaxTracking == 99999999
MinDays == 1
MaxDays == 9
MinDraw == 1
MaxDraw == 100

(***************************************************************************)
(* Bounds of the model.                                                    *)
(***************************************************************************)
\* random.random() is modelled as k / (MaxWeight + 1) for k in 0 .. MaxWeight.
MaxWeight == 3
\* The number of documents the store may come to hold.
MaxShipments == 2
\* The elapsed time of a tick is DeltaShort or DeltaLong.
DeltaShort == 15
DeltaLong == 60
\* The scheduler stops appending to a history that holds MaxHistory entries.
MaxHistory == 9
\* calls of start_simulation in a run of SpecStart
MaxCalls == 4

(***************************************************************************)
(* Helpers standing for Python built-ins.                                  *)
(***************************************************************************)
RECURSIVE SumSeq(_)
SumSeq(s) == IF s = <<>> THEN 0 ELSE Head(s) + SumSeq(Tail(s))

\* max(range(n), key=lambda i: s[i]): the first position holding the maximum.
ArgMaxFirst(s) ==
    CHOOSE i \in 1..Len(s) :
        /\ \A j \in 1..Len(s) : s[j] <= s[i]
        /\ \A j \in 1..(i - 1) : s[j] < s[i]

(***************************************************************************)
(* generate_step_durations, as a function of its draws: total_time, the    *)
(* transit proportion in percent (transit_prop = percent / 100) and the    *)
(* six weights (random.random() = weight / (MaxWeight + 1)).  int(x) of a  *)
(* non-negative x is its floor, so int(p / s * rest_time) is               *)
(* (weight * rest_time) \div sum(weights).                                 *)
(***************************************************************************)
TransitTime(total, percent) == (total * percent) \div 100

\* lines 53-58: the proportional shares, floored.
FlooredPartials(weights, rest) ==
    LET s == SumSeq(weights)
        w == IF s = 0 THEN [i \in 1..NumPartials |-> 1] ELSE weights
        sw == IF s = 0 THEN NumPartials ELSE s
    IN  [i \in 1..NumPartials |-> (w[i] * rest) \div sw]

\* lines 60-63: the rounding remainder goes to the largest share.
Partials(weights, rest) ==
    LET p == FlooredPartials(weights, rest)
        diff == rest - SumSeq(p)
        imax == ArgMaxFirst(p)
    IN  IF diff # 0 THEN [p EXCEPT ![imax] = p[imax] + diff] ELSE p

\* lines 65-72: three shares, the transit time, three shares.
Assemble(partials, transit) ==
    [i \in 1..NumStages |->
        IF i - 1 < TransitStage THEN partials[i]
        ELSE IF i - 1 = TransitStage THEN transit
        ELSE partials[i - 1]]

\* lines 74-76: every stage lasts at least 1.
FloorToOne(durations) ==
    [i \in 1..NumStages |-> IF durations[i] < 1 THEN 1 ELSE durations[i]]

\* lines 78-81: a deficit (and only a deficit) goes to the largest stage.
CorrectSum(durations, total) ==
    LET sum_diff == total - SumSeq(durations)
        imax == ArgMaxFirst(durations)
    IN  IF sum_diff > 0
        THEN [durations EXCEPT ![imax] = durations[imax] + sum_diff]
        ELSE durations

generate_step_durations(total, percent, weights) ==
    LET transit_time == TransitTime(total, percent)
        rest_time == total - transit_time
    IN  CorrectSum(FloorToOne(Assemble(Partials(weights, rest_time), transit_time)),
                   total)

Totals == MinTotal..MaxTotal
PropPercents == MinPropPercent..MaxPropPercent
WeightVectors == [1..NumPartials -> 0..MaxWeight]

(***************************************************************************)
(* The shipment store: the documents of shipments_collection in insertion  *)
(* order.  A document keeps the fields the engine reads or writes; client, *)
(* quantity, destination and creation_timestamp are never read by it and   *)
(* are left out, and a history entry is its status label (the timestamp    *)
(* beside it is never read).  A document whose on_hold field was removed   *)
(* by $unset reads as on_hold = FALSE, which is what every reader          *)
(* (shipment.get("on_hold", False)) sees.  The _id that insert_one gives a *)
(* document is its field id here, the position of the document in the      *)
(* store.                                                                  *)
(***************************************************************************)
statuses ==
    << "Commande confirmée",
       "Colis préparé",
       "Pris en charge par le transporteur",
       "En transit",
       "Arrivé au centre de distribution",
       "En cours de livraison",
       "Livré" >>

IncidentEntry == "Incident signalé"
CancelledStatus == "Livraison annulée"
ResumedStatus == "En transit"

\* line 161
IncidentStatus(days) ==
    "Incident signalé : Retard estimé : " \o ToString(days) \o " jour"
        \o (IF days > 1 THEN "s" ELSE "")

\* pymongo's update_one and find_one act on the first document, in insertion
\* order, that matches {"tracking": tracking}.
FirstMatch(st, tracking) ==
    IF \E i \in 1..Len(st) : st[i].tracking = tracking
    THEN CHOOSE i \in 1..Len(st) :
            /\ st[i].tracking = tracking
            /\ \A j \in 1..(i - 1) : st[j].tracking # tracking
    ELSE 0

\* find_one({"tracking": tracking}) is truthy
Found(st, tracking) == FirstMatch(st, tracking) # 0

\* One update document: the fields of $set (and of $unset, as on_hold = FALSE)
\* and the entries of $push history.
ApplyUpdate(doc, upd) ==
    [f \in DOMAIN doc |->
        IF f = "history" THEN doc.history \o upd.push
        ELSE IF f \in DOMAIN upd.set THEN upd.set[f]
        ELSE doc[f]]

update_one(st, tracking, upd) ==
    LET i == FirstMatch(st, tracking)
    IN  IF i = 0 THEN st ELSE [st EXCEPT ![i] = ApplyUpdate(st[i], upd)]

\* find({"finished": False, "archived": False}), line 134
FindActive(st) == SelectSeq(st, LAMBDA d : ~d.finished /\ ~d.archived)

(***************************************************************************)
(* generate_tracking_for, lines 193-217: the document inserted for the     *)
(* drawn tracking number, allocator draws and incident draw.               *)
(***************************************************************************)
IncidentPercent == 15

NewShipment(id, tracking, durations, incident_draw) ==
    [ id |-> id,
      tracking |-> tracking,
      status |-> statuses[1],
      history |-> << statuses[1] >>,
      current_step_index |-> 0,
      finished |-> FALSE,
      on_hold |-> FALSE,
      step_durations |-> durations,
      time_in_step |-> 0,
      incident_decision |-> (incident_draw <= IncidentPercent),
      incident_checked |-> FALSE,
      archived |-> FALSE ]

(***************************************************************************)
(* simulation_loop, lines 136-191: what one pass of the for loop does with *)
(* one document of the tick's snapshot.  The result names the branch       *)
(* taken, whether update_one is called and with which update, and whether  *)
(* a handle_incident thread is started.                                    *)
(***************************************************************************)
LastIndex == Len(statuses) - 1

\* lines 140-146
CloseOut ==
    [branch |-> "close", write |-> TRUE, spawn |-> FALSE,
     upd |-> [set |-> [finished |-> TRUE], push |-> <<>>]]

\* lines 148-149
SkipOnHold ==
    [branch |-> "hold", write |-> FALSE, spawn |-> FALSE,
     upd |-> [set |-> <<>>, push |-> <<>>]]

\* DeclareIncident without its idempotence guard: incident_checked is not set.
DeclareIncidentUnchecked(days) ==
    [branch |-> "incident", write |-> TRUE, spawn |-> TRUE,
     upd |-> [set |-> [status |-> IncidentStatus(days),
                       on_hold |-> TRUE],
              push |-> << IncidentEntry >>]]

\* lines 155-169
DeclareIncident(days) ==
    [branch |-> "incident", write |-> TRUE, spawn |-> TRUE,
     upd |-> [set |-> [incident_checked |-> TRUE,
                       status |-> IncidentStatus(days),
                       on_hold |-> TRUE],
              push |-> << IncidentEntry >>]]

\* Advance without lines 179-180: the last stage is reached, finished is not set.
AdvanceNoFinish(idx) ==
    LET new_idx == idx + 1
        new_status == statuses[new_idx + 1]
    IN  [branch |-> "advance", write |-> TRUE, spawn |-> FALSE,
         upd |-> [set |-> [current_step_index |-> new_idx,
                           status |-> new_status,
                           time_in_step |-> 0],
                  push |-> << new_status >>]]

\* lines 171-186
Advance(idx) ==
    LET new_idx == idx + 1
        new_status == statuses[new_idx + 1]
    IN  [branch |-> "advance", write |-> TRUE, spawn |-> FALSE,
         upd |-> [set |-> IF new_idx >= LastIndex
                          THEN [current_step_index |-> new_idx,
                                status |-> new_status,
                                time_in_step |-> 0,
                                finished |-> TRUE]
                          ELSE [current_step_index |-> new_idx,
                                status |-> new_status,
                                time_in_step |-> 0],
                  push |-> << new_status >>]]

\* lines 187-191
Account(time_in_step) ==
    [branch |-> "account", write |-> TRUE, spawn |-> FALSE,
     upd |-> [set |-> [time_in_step |-> time_in_step], push |-> <<>>]]

ProcessShipment(shipment, delta, days) ==
    LET idx == shipment.current_step_index
    IN  IF idx >= LastIndex THEN CloseOut
        ELSE IF shipment.on_hold THEN SkipOnHold
        ELSE LET time_in_step == shipment.time_in_step + delta
                 dur_step == shipment.step_durations[idx + 1]
             IN  IF /\ idx = TransitStage
                    /\ ~shipment.incident_checked
                    /\ shipment.incident_decision
                 THEN DeclareIncident(days)
                 ELSE IF time_in_step >= dur_step THEN Advance(idx)
                 ELSE Account(time_in_step)

(***************************************************************************)
(* handle_incident, lines 85-112.                                          *)
(***************************************************************************)
\* lines 89-91
Chance(days) == IF 10 + (days - 1) * 5 < 100 THEN 10 + (days - 1) * 5 ELSE 100
Outcome(days, draw) == draw <= Chance(days)

\* OutcomeUpdate without the $unset of line 109: a resumed shipment stays on hold.
OutcomeUpdateKeepsHold(outcome) ==
    IF outcome
    THEN [set |-> [status |-> CancelledStatus, finished |-> TRUE],
          push |-> << CancelledStatus >>]
    ELSE [set |-> [status |-> ResumedStatus],
          push |-> << ResumedStatus >>]

\* OutcomeUpdate writing the archived flag back as false, as a write of the
\* whole document read before the archiving would.
OutcomeUpdateUnarchives(outcome) ==
    IF outcome
    THEN [set |-> [status |-> CancelledStatus, finished |-> TRUE,
                   archived |-> FALSE],
          push |-> << CancelledStatus >>]
    ELSE [set |-> [status |-> ResumedStatus, on_hold |-> FALSE,
                   archived |-> FALSE],
          push |-> << ResumedStatus >>]

\* lines 97-111: the update written for the outcome drawn.
OutcomeUpdate(outcome) ==
    IF outcome
    THEN [set |-> [status |-> CancelledStatus, finished |-> TRUE],
          push |-> << CancelledStatus >>]
    ELSE [set |-> [status |-> ResumedStatus, on_hold |-> FALSE],
          push |-> << ResumedStatus >>]

(***************************************************************************)
(* State.                                                                  *)
(*   alloc      the allocator's draws and result (SpecAlloc)               *)
(*   store      shipments_collection                                       *)
(*   sched      the simulation_loop thread: where it is (asleep between    *)
(*              ticks, or inside the for loop), the tick's delta and the   *)
(*              documents of the tick's snapshot not yet processed         *)
(*   resolvers  the handle_incident threads started so far, each with its  *)
(*              arguments, its position and the outcome it drew            *)
(*   lock       the resolver holding `lock`, 0 when it is free             *)
(*   rnd        the draw line 91 returned to the resolver that holds the   *)
(*              lock, on record in SpecIncident only                       *)
(*   boot       start_simulation: the simulation_started flag, the number  *)
(*              of simulation_loop threads started and the position of     *)
(*              each call of start_simulation (SpecStart)                  *)
(*   archiving  the tracking numbers of the archive_shipment requests that *)
(*              are between their find_one (line 305) and their update_one *)
(*              (line 308)                                                 *)
(***************************************************************************)
VARIABLES alloc, store, sched, resolvers, lock, rnd, boot, archiving

vars == <<alloc, store, sched, resolvers, lock, rnd, boot, archiving>>

\* random.randint draws: the model draws the ends of each range and the values
\* on either side of each threshold the draw is compared with.
TrackingIds == {MinTracking, MaxTracking}
DaysDrawn == {MinDays, MaxDays}
Draws == {MinDraw, 10, 11, IncidentPercent, IncidentPercent + 1, 50, 51, MaxDraw}
Deltas == {DeltaShort, DeltaLong}

\* The allocator draws a new shipment gets in the engine's model: they give
\* the durations <<1, 1, 1, 22, 1, 1, 33>>, so that a short tick leaves the
\* transit stage unfinished and a long tick ends any stage.
CreateDraws ==
    { [total |-> 55, percent |-> 40, weights |-> <<0, 0, 0, 0, 0, 1>>] }

NoAlloc == [total |-> 0, percent |-> 0, weights |-> <<>>, durations |-> <<>>]

Asleep == [pc |-> "sleep", delta |-> 0, pending |-> <<>>]

NoRnd == [draw |-> 0]

\* line 327 has run: the one call of start_simulation has started the one
\* simulation_loop thread and set the flag.
Booted == [simulation_started |-> TRUE, loops |-> 1, calls |-> <<"done">>]

\* The module has been imported: no shipment yet, start_simulation() has
\* started the simulation_loop thread (line 327), the lock is free.
Init ==
    /\ alloc = NoAlloc
    /\ store = <<>>
    /\ sched = Asleep
    /\ resolvers = <<>>
    /\ lock = 0
    /\ rnd = NoRnd
    /\ boot = Booted
    /\ archiving = {}

\* passer_commande -> generate_tracking_for, lines 193-217
CreateUpTo(limit) ==
    /\ Len(store) < limit
    /\ \E tracking \in TrackingIds, a \in CreateDraws, incident_draw \in Draws :
          store' = Append(store,
                          NewShipment(Len(store) + 1, tracking,
                                      generate_step_durations(a.total, a.percent,
                                                              a.weights),
                                      incident_draw))
    /\ UNCHANGED <<alloc, rnd, boot, archiving, sched, resolvers, lock>>

Create == CreateUpTo(MaxShipments)

\* archive_shipment, lines 303-307: find_one answers.  The request holds no
\* lock, and any other thread may run before its update_one.  Requests that
\* change nothing at any point are no step: one whose tracking number is not
\* found (it returns 404), one whose document is archived already (it writes
\* the value that is there, and nothing ever clears it), and a second one for
\* a tracking number already in archiving (the two write the same update).
ArchiveFind ==
    /\ \E tracking \in TrackingIds :
          /\ Found(store, tracking)
          /\ ~store[FirstMatch(store, tracking)].archived
          /\ tracking \notin archiving
          /\ archiving' = archiving \cup {tracking}
    /\ UNCHANGED <<alloc, rnd, boot, store, sched, resolvers, lock>>

\* archive_shipment, lines 308-313: update_one selects again by tracking
\* number and sets archived.
ArchiveWrite ==
    /\ \E tracking \in archiving :
          /\ store' = update_one(store, tracking,
                                 [set |-> [archived |-> TRUE], push |-> <<>>])
          /\ archiving' = archiving \ {tracking}
    /\ UNCHANGED <<alloc, rnd, boot, sched, resolvers, lock>>

\* simulation_loop, lines 129-134: the sleep ends, delta is measured and the
\* snapshot of the active shipments is read.
Tick ==
    /\ sched.pc = "sleep"
    /\ \E delta \in Deltas :
          LET shipments == FindActive(store)
          IN  sched' = IF shipments = <<>> THEN Asleep
                       ELSE [pc |-> "loop", delta |-> delta, pending |-> shipments]
    /\ UNCHANGED <<alloc, rnd, boot, archiving, store, resolvers, lock>>

\* The thread started at line 167.
NewResolver(tracking, days) ==
    [tracking |-> tracking, days |-> days, pc |-> "sleeping", outcome |-> FALSE]

\* simulation_loop, lines 136-191: one pass of the for loop, with the days
\* that line 156 draws if it is reached.
StepDrawing(days) ==
    /\ sched.pc = "loop"
    /\    LET shipment == Head(sched.pending)
              todo == ProcessShipment(shipment, sched.delta, days)
              rest == Tail(sched.pending)
              target == FirstMatch(store, shipment.tracking)
          IN  /\ (todo.write /\ todo.upd.push # <<>> /\ target # 0)
                    => Len(store[target].history) < MaxHistory
              /\ store' = IF todo.write
                          THEN update_one(store, shipment.tracking, todo.upd)
                          ELSE store
              /\ resolvers' = IF todo.spawn
                              THEN Append(resolvers,
                                          NewResolver(shipment.tracking, days))
                              ELSE resolvers
              /\ sched' = IF rest = <<>> THEN Asleep
                          ELSE [sched EXCEPT !.pending = rest]
    /\ UNCHANGED <<alloc, rnd, boot, archiving, lock>>

Step == \E days \in DaysDrawn : StepDrawing(days)

\* handle_incident, lines 88-96: the sleep ends, the outcome is drawn (draw is
\* what line 91 draws), the lock is taken and the shipment is looked up.
ResolverReadDrawing(draw) ==
    /\ lock = 0
    /\ \E r \in 1..Len(resolvers) :
          /\ resolvers[r].pc = "sleeping"
          /\ IF Found(store, resolvers[r].tracking)
             THEN /\ resolvers' = [resolvers EXCEPT
                                     ![r].pc = "locked",
                                     ![r].outcome = Outcome(resolvers[r].days, draw)]
                  /\ lock' = r
             ELSE /\ resolvers' = [resolvers EXCEPT ![r].pc = "done"]
                  /\ lock' = 0
    /\ UNCHANGED <<alloc, boot, archiving, store, sched>>

ResolverRead ==
    /\ \E draw \in Draws : ResolverReadDrawing(draw)
    /\ UNCHANGED rnd

\* handle_incident, lines 97-112: the outcome is written and the lock released.
ResolverWriteOutcome ==
    /\ \E r \in 1..Len(resolvers) :
          /\ resolvers[r].pc = "locked"
          /\ lock = r
          /\ store' = update_one(store, resolvers[r].tracking,
                                 OutcomeUpdate(resolvers[r].outcome))
          /\ resolvers' = [resolvers EXCEPT ![r].pc = "done"]
          /\ lock' = 0
    /\ UNCHANGED <<alloc, boot, archiving, sched>>

ResolverWrite == ResolverWriteOutcome /\ UNCHANGED rnd

Next ==
    \/ Create
    \/ ArchiveFind
    \/ ArchiveWrite
    \/ Tick
    \/ Step
    \/ ResolverRead
    \/ ResolverWrite

Spec == Init /\ [][Next]_vars

(***************************************************************************)
(* The allocator alone: Init draws total_time, transit_prop and the        *)
(* weights, Allocate runs generate_step_durations on them.                 *)
(***************************************************************************)
InitAlloc ==
    /\ \E t \in Totals, p \in PropPercents, w \in WeightVectors :
          alloc = [total |-> t, percent |-> p, weights |-> w, durations |-> <<>>]
    /\ store = <<>>
    /\ sched = Asleep
    /\ resolvers = <<>>
    /\ lock = 0
    /\ rnd = NoRnd
    /\ boot = Booted
    /\ archiving = {}

Allocate ==
    /\ alloc.durations = <<>>
    /\ alloc.weights # <<>>
    /\ alloc' = [alloc EXCEPT
                   !.durations = generate_step_durations(alloc.total, alloc.percent,
                                                         alloc.weights)]
    /\ UNCHANGED <<rnd, boot, archiving, store, sched, resolvers, lock>>

NextAlloc == Allocate

SpecAlloc == InitAlloc /\ [][NextAlloc]_vars

(***************************************************************************)
(* The engine with a store whose writes may fail: update_one raises inside *)
(* the for loop of simulation_loop.  Nothing in the loop catches it        *)
(* (lines 128-191 hold no try), so the exception ends the thread.          *)
(***************************************************************************)
Dead == [pc |-> "dead", delta |-> 0, pending |-> <<>>]

StepWriteFails ==
    /\ sched.pc = "loop"
    /\ \E days \in DaysDrawn :
          ProcessShipment(Head(sched.pending), sched.delta, days).write
    /\ sched' = Dead
    /\ UNCHANGED <<alloc, rnd, boot, archiving, store, resolvers, lock>>

NextFault == Next \/ StepWriteFails

SpecFault == Init /\ [][NextFault]_vars

(***************************************************************************)
(* SpecStart: start_simulation, lines 317-323, called any number of times, *)
(* the calls running one after the other or at once. A call is at "test"   *)
(* before the if of line 320, at "start" once it has read the flag as      *)
(* false, at "set" once it has started its thread (line 322) and "done"    *)
(* after line 323 or after reading the flag as true.                       *)
(***************************************************************************)
InitStart ==
    /\ alloc = NoAlloc
    /\ store = <<>>
    /\ sched = Asleep
    /\ resolvers = <<>>
    /\ lock = 0
    /\ rnd = NoRnd
    /\ boot = [simulation_started |-> FALSE, loops |-> 0, calls |-> <<>>]
    /\ archiving = {}

Quiet == UNCHANGED <<alloc, rnd, archiving, store, sched, resolvers, lock>>

\* start_simulation is called.
CallStart ==
    /\ Len(boot.calls) < MaxCalls
    /\ boot' = [boot EXCEPT !.calls = Append(@, "test")]
    /\ Quiet

\* line 320
TestStarted ==
    /\ \E c \in 1..Len(boot.calls) :
          /\ boot.calls[c] = "test"
          /\ boot' = [boot EXCEPT !.calls[c] = IF boot.simulation_started
                                                THEN "done" ELSE "start"]
    /\ Quiet

\* lines 321-322
StartLoop ==
    /\ \E c \in 1..Len(boot.calls) :
          /\ boot.calls[c] = "start"
          /\ boot' = [boot EXCEPT !.calls[c] = "set", !.loops = @ + 1]
    /\ Quiet

\* line 323
SetStarted ==
    /\ \E c \in 1..Len(boot.calls) :
          /\ boot.calls[c] = "set"
          /\ boot' = [boot EXCEPT !.calls[c] = "done", !.simulation_started = TRUE]
    /\ Quiet

NextStart == CallStart \/ TestStarted \/ StartLoop \/ SetStarted

SpecStart == InitStart /\ [][NextStart]_vars

(***************************************************************************)
(* SpecIncident: the program with every days of 1..9 drawn at line 156 and *)
(* with the draw of line 91 kept on record in rnd while the resolver that  *)
(* drew it holds the lock. Each incident draws afresh. Of 1..100 the draws *)
(* are the two ends and each value that some days' chance (10, 15, ...,    *)
(* 50) separates from the next one.                                        *)
(***************************************************************************)
IncidentDraws ==
    {MinDraw, MaxDraw}
        \cup {Chance(days) + above : days \in MinDays..MaxDays, above \in {0, 1}}

\* One pass of the for loop; line 156 draws only when the pass reaches it.
IncidentStep ==
    /\ sched.pc = "loop"
    /\ \E days \in IF ProcessShipment(Head(sched.pending), sched.delta,
                                      MinDays).spawn
                    THEN MinDays..MaxDays
                    ELSE {MinDays} :
          StepDrawing(days)

IncidentRead ==
    \E draw \in IncidentDraws :
        /\ ResolverReadDrawing(draw)
        /\ rnd' = IF lock' = 0 THEN NoRnd ELSE [draw |-> draw]

IncidentWrite == ResolverWriteOutcome /\ rnd' = NoRnd

NextIncident ==
    \/ Create
    \/ ArchiveFind
    \/ ArchiveWrite
    \/ Tick
    \/ IncidentStep
    \/ IncidentRead
    \/ IncidentWrite

SpecIncident == Init /\ [][NextIncident]_vars

(***************************************************************************)
(* Claims.                                                                 *)
(***************************************************************************)
Docs == 1..Len(store)
Threads == 1..Len(resolvers)

\* A step of the scheduler's for loop (Step is the only action that changes
\* sched while it is inside the loop).
SchedulerStep == sched.pc = "loop" /\ sched' # sched

\* C1: after generate_step_durations has run on a total T in 55..60, a
\* transit proportion in [0.4, 0.5] and six weights, the result holds 7
\* integers, all >= 1, whose sum is exactly T.
C1_DurationsSumToTotal ==
    alloc.durations # <<>> =>
        /\ Len(alloc.durations) = NumStages
        /\ \A i \in 1..NumStages : alloc.durations[i] >= 1
        /\ SumSeq(alloc.durations) = alloc.total

\* C2: the scheduler's read / decide / write of a shipment and a resolver's
\* read / write of the same shipment never interleave: the scheduler never
\* holds an unprocessed snapshot of a shipment (read, not yet decided and
\* written) while a resolver is between its find_one and its update_one of
\* that same document, whichever of the two read first.
SchedulerBetweenReadAndWrite(id) ==
    /\ sched.pc = "loop"
    /\ \E k \in 1..Len(sched.pending) : sched.pending[k].id = id

ResolverBetweenReadAndWrite(id) ==
    \E r \in Threads :
        /\ resolvers[r].pc = "locked"
        /\ FirstMatch(store, resolvers[r].tracking) = id

C2_NoInterleaving ==
    \A id \in Docs :
        ~(SchedulerBetweenReadAndWrite(id) /\ ResolverBetweenReadAndWrite(id))

\* C3: at most one handle_incident thread is ever started for a shipment
\* (the threads started are never forgotten, so the count only grows).
ThreadsFor(tracking) == {r \in Threads : resolvers[r].tracking = tracking}

C3_AtMostOneResolver ==
    \A tracking \in TrackingIds : Cardinality(ThreadsFor(tracking)) <= 1

\* C3 witness: a shipment whose incident was declared has been resumed and
\* processed again at the transit stage, up to leaving it, with its single
\* resolver on record.
C3_Witness ==
    \E i \in Docs :
        /\ store[i].incident_checked
        /\ store[i].current_step_index > TransitStage
        /\ Cardinality(ThreadsFor(store[i].tracking)) = 1

\* C4: in a step of the scheduler, a shipment whose stored on_hold is true
\* keeps its current_step_index, time_in_step, status and history.
C4_HoldExcludesAdvance ==
    [][SchedulerStep =>
         \A i \in Docs :
             store[i].on_hold =>
                 /\ store'[i].current_step_index = store[i].current_step_index
                 /\ store'[i].time_in_step = store[i].time_in_step
                 /\ store'[i].status = store[i].status
                 /\ store'[i].history = store[i].history]_vars

\* C5: every stored shipment has 0 <= current_step_index <= 6, and finished
\* is true whenever current_step_index = 6.
C5_IndexRangeAndFinished ==
    \A i \in Docs :
        /\ store[i].current_step_index \in 0..LastIndex
        /\ store[i].current_step_index = LastIndex => store[i].finished

\* C5 witness: a shipment has reached the last stage.
C5_Witness ==
    \E i \in Docs : store[i].current_step_index = LastIndex /\ store[i].finished

\* C6 (as claimed): whenever on_hold is true, an incident was declared for
\* the shipment and its resolver has not completed.
C6_HoldOnlyWhilePending ==
    \A i \in Docs :
        store[i].on_hold =>
            /\ store[i].incident_checked
            /\ \E r \in ThreadsFor(store[i].tracking) : resolvers[r].pc # "done"

\* C6 (amended): whenever on_hold is true, an incident was declared for the
\* shipment, and either its resolver has not completed or it completed with
\* the outcome cancelled, in which case the shipment is finished.
C6_HoldPendingOrCancelled ==
    \A i \in Docs :
        store[i].on_hold =>
            /\ store[i].incident_checked
            /\ IncidentEntry \in {store[i].history[k] : k \in 1..Len(store[i].history)}
            /\ \E r \in ThreadsFor(store[i].tracking) :
                  \/ resolvers[r].pc # "done"
                  \/ resolvers[r].outcome /\ store[i].finished

\* C6 witness: both cases, a shipment on hold whose resolver is still asleep
\* and one on hold after its resolver completed with a cancellation.
C6_Witness ==
    /\ \E i \in Docs :
          /\ store[i].on_hold
          /\ \E r \in ThreadsFor(store[i].tracking) : resolvers[r].pc = "sleeping"
    /\ \E i \in Docs :
          /\ store[i].on_hold
          /\ \E r \in ThreadsFor(store[i].tracking) :
                resolvers[r].pc = "done" /\ resolvers[r].outcome

\* C7: a store write that fails while one shipment is processed does not
\* abort the scheduler.
C7_SchedulerSurvivesFailure == sched.pc # "dead"

\* C8: no two shipments of the store share a tracking number.
C8_TrackingUnique ==
    \A i, j \in Docs : i # j => store[i].tracking # store[j].tracking

\* C9: a step of the scheduler writes nothing to a shipment whose finished or
\* archived flag is true in the store at that moment.
C9_NoWriteToFinishedOrArchived ==
    [][SchedulerStep =>
         \A i \in Docs :
             (store[i].finished \/ store[i].archived) => store'[i] = store[i]]_vars

\* C10: history is append-only, grows by exactly one entry when the status
\* or the stage of the shipment changes and by none otherwise, and the stage
\* labels of history, in order, never go back to an earlier stage, a
\* cancellation entry being the last entry of its history.
StageOf(label) == CHOOSE k \in 0..LastIndex : statuses[k + 1] = label
IsStageLabel(label) == \E k \in 0..LastIndex : statuses[k + 1] = label

ReplayOk(history) ==
    /\ \A a, b \in 1..Len(history) :
          (a < b /\ IsStageLabel(history[a]) /\ IsStageLabel(history[b]))
              => StageOf(history[a]) <= StageOf(history[b])
    /\ \A a \in 1..Len(history) :
          history[a] = CancelledStatus => a = Len(history)

ObservableChange(i) ==
    \/ store'[i].status # store[i].status
    \/ store'[i].current_step_index # store[i].current_step_index

C10_HistoryOnePerChange ==
    /\ [](\A i \in Docs : ReplayOk(store[i].history))
    /\ [][\A i \in Docs :
             /\ Len(store'[i].history) =
                   Len(store[i].history) + (IF ObservableChange(i) THEN 1 ELSE 0)
             /\ SubSeq(store'[i].history, 1, Len(store[i].history))
                   = store[i].history]_vars


Entries(history) == {history[k] : k \in 1..Len(history)}

\* C11: a shipment created with incident_decision false and never archived
\* ends finished at the last stage; what it shows on the way and at the end is
\* stated here: it is never on hold, its history never holds an incident
\* entry, and once it is finished its current_step_index is 6 and its history
\* has exactly 7 entries (the creation and 6 advances).
C11_PlainShipmentFinishesCleanly ==
    \A i \in Docs :
        (~store[i].incident_decision /\ ~store[i].archived) =>
            /\ ~store[i].on_hold
            /\ IncidentEntry \notin Entries(store[i].history)
            /\ store[i].finished =>
                  /\ store[i].current_step_index = LastIndex
                  /\ Len(store[i].history) = NumStages


\* C12: for every days in 1..9 and every draw in 1..100 the resolver's
\* outcome is cancelled iff draw <= min(10 + (days - 1) * 5, 100), resumed
\* otherwise. Its write finds the shipment at stage 3 and leaves it there; on
\* cancelled the shipment ends with the cancelled status and finished true,
\* on resumed with the transit status, on_hold false and finished false; and
\* either way the write appends exactly one entry, the outcome, to history.
MinOf(a, b) == IF a <= b THEN a ELSE b

C12_OutcomeByDraw ==
    [][\A r \in Threads :
         (resolvers[r].pc = "locked" /\ resolvers'[r].pc = "done") =>
             LET i == FirstMatch(store, resolvers[r].tracking)
                 cancelled ==
                     rnd.draw <= MinOf(10 + (resolvers[r].days - 1) * 5, 100)
                 entry == IF cancelled THEN CancelledStatus ELSE ResumedStatus
             IN  /\ resolvers[r].days \in MinDays..MaxDays
                 /\ rnd.draw \in MinDraw..MaxDraw
                 /\ resolvers[r].outcome = cancelled
                 /\ store[i].current_step_index = TransitStage
                 /\ store'[i].current_step_index = TransitStage
                 /\ store'[i].status = entry
                 /\ store'[i].history = Append(store[i].history, entry)
                 /\ IF cancelled
                    THEN store'[i].finished
                    ELSE ~store'[i].on_hold /\ ~store'[i].finished]_vars

\* C13: archiving a shipment while its resolver is in flight is safe. The
\* resolver always finds its shipment (it never takes the not-found return),
\* its write appends its one outcome entry and leaves archived as it is,
\* archived once true stays true, and an archived shipment keeps its index in
\* 0..6, at most one incident entry and at most one outcome entry after it.
OutcomeEntries == {CancelledStatus, ResumedStatus}

OutcomesAfterDeclaration(history) ==
    {k \in 1..Len(history) :
        /\ history[k] \in OutcomeEntries
        /\ \E j \in 1..(k - 1) : history[j] = IncidentEntry}

C13_ArchiveSafeDuringIncident ==
    /\ [](\A r \in Threads : Found(store, resolvers[r].tracking))
    /\ [](\A i \in Docs :
             store[i].archived =>
                 /\ store[i].current_step_index \in 0..LastIndex
                 /\ Cardinality({k \in 1..Len(store[i].history) :
                                    store[i].history[k] = IncidentEntry}) <= 1
                 /\ Cardinality(OutcomesAfterDeclaration(store[i].history)) <= 1)
    /\ [][\A i \in Docs : store[i].archived => store'[i].archived]_vars
    /\ [][\A r \in Threads :
             (resolvers[r].pc = "locked" /\ resolvers'[r].pc = "done") =>
                 LET i == FirstMatch(store, resolvers[r].tracking)
                 IN  /\ store'[i].archived = store[i].archived
                     /\ Len(store'[i].history) = Len(store[i].history) + 1
                     /\ store'[i].history[Len(store'[i].history)]
                           \in OutcomeEntries]_vars

\* C13 witness: a shipment was archived while its resolver was in flight: it
\* is archived and on hold, and the resolver holds the lock, its write next.
C13_Witness ==
    \E i \in Docs :
        /\ store[i].archived
        /\ store[i].on_hold
        /\ \E r \in Threads :
              /\ resolvers[r].pc = "locked"
              /\ FirstMatch(store, resolvers[r].tracking) = i


\* C14: a resolver that is asleep blocks only its own shipment. It does not
\* hold the lock while it sleeps; the scheduler's next tick does not wait for
\* it; and when the loop processes another shipment that is active, not on
\* hold and due (its time in the stage, with this tick's delta, has reached
\* the stage's duration), that shipment moves to the next stage.
Sleeping(r) == resolvers[r].pc = "sleeping"

Due(shipment, delta) ==
    /\ shipment.current_step_index < LastIndex
    /\ ~shipment.on_hold
    /\ ~(/\ shipment.current_step_index = TransitStage
         /\ shipment.incident_decision
         /\ ~shipment.incident_checked)
    /\ shipment.time_in_step + delta
          >= shipment.step_durations[shipment.current_step_index + 1]

C14_SleepingResolverBlocksOnlyItsShipment ==
    /\ [](\A r \in Threads : Sleeping(r) => lock # r)
    /\ []((sched.pc = "sleep" /\ \E r \in Threads : Sleeping(r)) => ENABLED Tick)
    /\ [][SchedulerStep =>
             LET shipment == Head(sched.pending)
             IN  (/\ Due(shipment, sched.delta)
                  /\ \E r \in Threads :
                        /\ Sleeping(r)
                        /\ FirstMatch(store, resolvers[r].tracking) # shipment.id)
                 => store'[shipment.id].current_step_index
                        = shipment.current_step_index + 1]_vars


\* C15: time spent on hold does not count toward the transit stage. The
\* resolver's resumption leaves the shipment at stage 3 with a stored
\* time_in_step of 0; and a shipment whose incident was declared leaves stage
\* 3 only off hold, to stage 4, in a step of the scheduler on that shipment,
\* when the time stored since the resumption plus this tick's delta has
\* reached step_durations[3].
C15_HoldTimeNotCounted ==
    /\ [][\A r \in Threads :
             (/\ resolvers[r].pc = "locked"
              /\ resolvers'[r].pc = "done"
              /\ ~resolvers[r].outcome) =>
                 LET i == FirstMatch(store, resolvers[r].tracking)
                 IN  /\ store'[i].current_step_index = TransitStage
                     /\ store'[i].time_in_step = 0]_vars
    /\ [][\A i \in Docs :
             (/\ store[i].incident_checked
              /\ store[i].current_step_index = TransitStage
              /\ store'[i].current_step_index # TransitStage) =>
                 /\ ~store[i].on_hold
                 /\ SchedulerStep
                 /\ Head(sched.pending).id = i
                 /\ store'[i].current_step_index = TransitStage + 1
                 /\ store[i].time_in_step + sched.delta
                       >= store[i].step_durations[TransitStage + 1]]_vars


\* C16: current_step_index never decreases; it changes only by +1, in the
\* scheduler's step on that shipment (each shipment has one step per tick, so
\* at most once per tick, whatever the tick's delta), and the write that
\* changes it sets time_in_step to 0.
C16_IndexStepsByOne ==
    [][\A i \in Docs :
         store'[i].current_step_index # store[i].current_step_index =>
             /\ store'[i].current_step_index = store[i].current_step_index + 1
             /\ store'[i].time_in_step = 0
             /\ SchedulerStep
             /\ Head(sched.pending).id = i]_vars


\* C17: every declared incident is resolved by exactly one outcome write. An
\* incident entry in a history has exactly one resolver behind it; as long as
\* that resolver has not written, the incident entry is the last entry of the
\* history, and once it has, the entry right after the incident entry is the
\* outcome entry.
C17_OutcomeFollowsDeclaration ==
    \A i \in Docs :
        \A k \in 1..Len(store[i].history) :
            store[i].history[k] = IncidentEntry =>
                /\ Cardinality(ThreadsFor(store[i].tracking)) = 1
                /\ \A r \in ThreadsFor(store[i].tracking) :
                      IF resolvers[r].pc = "done"
                      THEN /\ k < Len(store[i].history)
                           /\ store[i].history[k + 1] \in OutcomeEntries
                      ELSE k = Len(store[i].history)


\* C18 (as claimed): after a step of the scheduler on a shipment it read at
\* stage 3, that shipment's incident_checked is true, whether its
\* incident_decision is true or false.
C18_CheckedOnceProcessedAtTransit ==
    [][SchedulerStep =>
         LET shipment == Head(sched.pending)
         IN  shipment.current_step_index = TransitStage
                 => store'[shipment.id].incident_checked]_vars

\* C18 (amended): incident_checked becomes true exactly when an incident is
\* declared. After a step of the scheduler on a shipment it read at stage 3
\* and whose incident_decision is true, incident_checked is true; a shipment
\* whose incident_decision is false keeps incident_checked false for good;
\* and incident_checked is true exactly for the shipments whose history holds
\* an incident entry.
C18_CheckedIffIncidentDeclared ==
    /\ [][SchedulerStep =>
             LET shipment == Head(sched.pending)
             IN  (/\ shipment.current_step_index = TransitStage
                  /\ shipment.incident_decision)
                     => store'[shipment.id].incident_checked]_vars
    /\ [](\A i \in Docs :
             /\ ~store[i].incident_decision => ~store[i].incident_checked
             /\ store[i].incident_checked
                   <=> IncidentEntry \in Entries(store[i].history))

\* C18 witness: one shipment with incident_decision false has been processed
\* at stage 3, up to leaving it, and is still unchecked, and another, with
\* incident_decision true, has been processed there and is checked.
C18_Witness ==
    /\ \E i \in Docs :
          /\ ~store[i].incident_decision
          /\ store[i].current_step_index > TransitStage
          /\ ~store[i].incident_checked
    /\ \E i \in Docs :
          /\ store[i].incident_decision
          /\ store[i].current_step_index = TransitStage
          /\ store[i].incident_checked


\* C19: however many times start_simulation is called, one call after the
\* other or several at once, at most one simulation_loop thread is started.
C19_LoopStartedOnce == boot.loops <= 1


\* C20: finished is terminal. Once a shipment's finished is true it stays
\* true, and no later step of the scheduler, of a resolver or of anything
\* else changes its status, current_step_index, time_in_step or history.
C20_FinishedIsTerminal ==
    [][\A i \in Docs :
         store[i].finished =>
             /\ store'[i].finished
             /\ store'[i].status = store[i].status
             /\ store'[i].current_step_index = store[i].current_step_index
             /\ store'[i].time_in_step = store[i].time_in_step
             /\ store'[i].history = store[i].history]_vars

=============================================================================
